---- MODULE Spec2Model ----
(***************************************************************************)
(* Provider normalization layer of git-forge: the GitHub, GitLab and Azure *)
(* DevOps adapters behind the GitForgeService contract.  Every adapter     *)
(* operation is one action: it issues its backend calls (recorded in       *)
(* `calls`), receives each call's response from the backend (the model's   *)
(* environment), and ends in a normalized result or a normalized error.    *)
(***************************************************************************)
EXTENDS Integers, Sequences, FiniteSets, TLC

\* ------------------------------------------------------------------------
\* Bounds
\* ------------------------------------------------------------------------
\* phrases joined into one native error message
MaxPhrases == 2
\* pull requests held by the backend fixture of one list call
MaxPrs == 3

\* ------------------------------------------------------------------------
\* JavaScript values
\* ------------------------------------------------------------------------
\* `undefined` of a string-typed, a number-typed and a boolean-typed slot
Undefined == "<undefined>"
UndefinedNum == 0 - 1
JsBool == {"true", "false"}

\* a ?? b
Coalesce(a, b) == IF a = Undefined THEN b ELSE a

UpperChars == "ABCDEFGHIJKLMNOPQRSTUVWXYZ"
LowerChars == "abcdefghijklmnopqrstuvwxyz"
HexChars == "0123456789abcdefABCDEF"

CharAt(s, i) == SubSeq(s, i, i)

\* the characters of a string, as a set
CharsOf(s) == {CharAt(s, i) : i \in 1..Len(s)}

UpperSet == CharsOf(UpperChars)
HexSet == CharsOf(HexChars)
DigitSet == CharsOf("0123456789")

\* the lower-case letter of each upper-case letter
LowerOf ==
  [c \in UpperSet |->
     CharAt(LowerChars, CHOOSE i \in 1..Len(UpperChars) : CharAt(UpperChars, i) = c)]

toLowerChar(c) == IF c \in UpperSet THEN LowerOf[c] ELSE c

RECURSIVE toLowerCase(_)
\* String.prototype.toLowerCase
toLowerCase(s) ==
  IF Len(s) = 0 THEN ""
  ELSE toLowerChar(CharAt(s, 1)) \o toLowerCase(SubSeq(s, 2, Len(s)))

\* String.prototype.includes
includes(s, sub) ==
  \E i \in 1..(Len(s) - Len(sub) + 1) : SubSeq(s, i, i + Len(sub) - 1) = sub

\* String.prototype.startsWith (the ^ anchor of the regular expressions)
startsWith(s, prefix) ==
  /\ Len(s) >= Len(prefix)
  /\ SubSeq(s, 1, Len(prefix)) = prefix

\* the test without its i flag: upper-case digits are not accepted
isSha_CaseSensitive(ref) ==
  /\ Len(ref) = 40
  /\ \A i \in 1..40 : CharAt(ref, i) \in CharsOf("0123456789abcdef")

\* /^[0-9a-f]{40}$/i.test(ref)
isSha(ref) ==
  /\ Len(ref) = 40
  /\ \A i \in 1..40 : CharAt(ref, i) \in HexSet

DigitValue ==
  [c \in DigitSet |-> (CHOOSE i \in 1..10 : CharAt("0123456789", i) = c) - 1]

RECURSIVE parseIntFrom(_, _)
\* parseInt(header, 10) of a header that starts with a digit
parseIntFrom(s, acc) ==
  IF Len(s) = 0 \/ CharAt(s, 1) \notin DigitSet THEN acc
  ELSE parseIntFrom(SubSeq(s, 2, Len(s)),
                    acc * 10 + DigitValue[CharAt(s, 1)])

parseInt(s) == parseIntFrom(s, 0)

\* ------------------------------------------------------------------------
\* Normalized data model and error taxonomy
\* ------------------------------------------------------------------------
Providers == {"github", "gitlab", "azure-devops"}

GitForgeError(p, operation, message, cause) ==
  [tag |-> "GitForgeError", provider |-> p, operation |-> operation,
   message |-> message, cause |-> cause]

AuthenticationError(p, message) ==
  [tag |-> "AuthenticationError", provider |-> p, message |-> message]

NotFoundError(p, resource, identifier) ==
  [tag |-> "NotFoundError", provider |-> p, resource |-> resource,
   identifier |-> identifier]

\* retryAfter is UndefinedNum when the field is omitted
RateLimitError(p, retryAfter) ==
  [tag |-> "RateLimitError", provider |-> p, retryAfter |-> retryAfter]

\* field is Undefined when the field is omitted
ValidationError(p, message, field) ==
  [tag |-> "ValidationError", provider |-> p, message |-> message, field |-> field]

ForgeErrorTags ==
  {"GitForgeError", "AuthenticationError", "NotFoundError", "RateLimitError",
   "ValidationError"}

Branch(name, sha, isDefault, protected) ==
  [name |-> name, sha |-> sha, isDefault |-> isDefault, protected |-> protected]

\* description, url, createdAt and updatedAt are copied through and left out
PullRequest(id, number, title, state, sourceBranch, targetBranch, author, draft) ==
  [id |-> id, number |-> number, title |-> title, state |-> state,
   sourceBranch |-> sourceBranch, targetBranch |-> targetBranch,
   author |-> author, draft |-> draft]

CommitResult(sha, message) == [sha |-> sha, message |-> message]

\* ------------------------------------------------------------------------
\* Native failures of the backend clients
\* ------------------------------------------------------------------------
PhraseList ==
  <<"401", "Unauthorized", "403", "404", "Not Found", "400", "422", "Invalid",
    "429", "Rate Limit">>

JoinPhrase(p, m) == IF m = "" THEN p ELSE p \o " " \o m

RECURSIVE MessagesFrom(_, _)
\* the messages made of at most n phrases of PhraseList, from index k on
MessagesFrom(k, n) ==
  IF n = 0 \/ k > Len(PhraseList) THEN {""}
  ELSE MessagesFrom(k + 1, n)
         \cup {JoinPhrase(PhraseList[k], m) : m \in MessagesFrom(k + 1, n - 1)}

Messages == MessagesFrom(1, MaxPhrases)

Statuses == {400, 401, 403, 404, 422, 429, 500}

\* an Error instance as thrown by a backend client
NativeError(hasStatus, status, message, retryAfter) ==
  [tag |-> "Error", hasStatus |-> hasStatus, status |-> status,
   message |-> message, retryAfter |-> retryAfter]

\* a thrown value that is not an Error instance
NonError == [tag |-> "NonError", message |-> "timeout"]

\* Octokit request errors carry a numeric status (and headers on 429); an
\* error without status is a transport failure
GitHubMessages == {"", "Unauthorized", "Not Found", "Invalid"}

GitHubErrors ==
  {NativeError(TRUE, s, m, Undefined) : s \in Statuses, m \in GitHubMessages}
    \cup {NativeError(TRUE, 429, m, "30") : m \in GitHubMessages}
    \cup {NativeError(FALSE, UndefinedNum, m, Undefined) : m \in GitHubMessages}
    \cup {NonError}

\* the GitLab and Azure DevOps clients expose the failure in the message only
MessageErrors ==
  {NativeError(FALSE, UndefinedNum, m, Undefined) : m \in Messages} \cup {NonError}

NativeErrors(p) == IF p = "github" THEN GitHubErrors ELSE MessageErrors

\* error instanceof Error: native Errors and the adapters' own tagged errors
instanceofError(error) == error.tag # "NonError"

\* error.message (String(error) for a value that is not an Error)
messageOf(error) == IF "message" \in DOMAIN error THEN error.message ELSE ""

\* ------------------------------------------------------------------------
\* mapError, one per adapter
\* ------------------------------------------------------------------------
mapErrorGitLab(error, operation) ==
  LET message == toLowerCase(messageOf(error)) IN
  IF instanceofError(error) /\ (includes(message, "401") \/ includes(message, "unauthorized"))
    THEN AuthenticationError("gitlab", messageOf(error))
  ELSE IF instanceofError(error) /\ (includes(message, "404") \/ includes(message, "not found"))
    THEN NotFoundError("gitlab", "repository", "unknown")
  ELSE IF instanceofError(error) /\ (includes(message, "422") \/ includes(message, "invalid"))
    THEN ValidationError("gitlab", messageOf(error), Undefined)
  ELSE IF instanceofError(error) /\ (includes(message, "429") \/ includes(message, "rate limit"))
    THEN RateLimitError("gitlab", UndefinedNum)
  ELSE GitForgeError("gitlab", operation, messageOf(error), error)

mapErrorGitHub(error, operation) ==
  LET withStatus == instanceofError(error) /\ "hasStatus" \in DOMAIN error /\ error.hasStatus
      status == IF withStatus THEN error.status ELSE UndefinedNum
  IN
  IF withStatus /\ (status = 401 \/ status = 403)
    THEN AuthenticationError("github", messageOf(error))
  ELSE IF withStatus /\ status = 404
    THEN NotFoundError("github", "repository", "unknown")
  ELSE IF withStatus /\ status = 422
    THEN ValidationError("github", messageOf(error), Undefined)
  ELSE IF withStatus /\ status = 429
    THEN IF error.retryAfter # Undefined /\ error.retryAfter # ""
           THEN RateLimitError("github", parseInt(error.retryAfter))
           ELSE RateLimitError("github", UndefinedNum)
  ELSE GitForgeError("github", operation, messageOf(error), error)

\* the fallthrough names no operation
mapErrorAzure_NoOperation(error, operation) ==
  LET message == toLowerCase(messageOf(error)) IN
  IF instanceofError(error) /\ (includes(message, "401") \/ includes(message, "unauthorized"))
    THEN AuthenticationError("azure-devops", messageOf(error))
  ELSE IF instanceofError(error) /\ (includes(message, "404") \/ includes(message, "not found"))
    THEN NotFoundError("azure-devops", "repository", "unknown")
  ELSE IF instanceofError(error) /\ (includes(message, "400") \/ includes(message, "invalid"))
    THEN ValidationError("azure-devops", messageOf(error), Undefined)
  ELSE IF instanceofError(error) /\ (includes(message, "429") \/ includes(message, "rate limit"))
    THEN RateLimitError("azure-devops", UndefinedNum)
  ELSE GitForgeError("azure-devops", "unknown", messageOf(error), error)

mapErrorAzure(error, operation) ==
  LET message == toLowerCase(messageOf(error)) IN
  IF instanceofError(error) /\ (includes(message, "401") \/ includes(message, "unauthorized"))
    THEN AuthenticationError("azure-devops", messageOf(error))
  ELSE IF instanceofError(error) /\ (includes(message, "404") \/ includes(message, "not found"))
    THEN NotFoundError("azure-devops", "repository", "unknown")
  ELSE IF instanceofError(error) /\ (includes(message, "400") \/ includes(message, "invalid"))
    THEN ValidationError("azure-devops", messageOf(error), Undefined)
  ELSE IF instanceofError(error) /\ (includes(message, "429") \/ includes(message, "rate limit"))
    THEN RateLimitError("azure-devops", UndefinedNum)
  ELSE GitForgeError("azure-devops", operation, messageOf(error), error)

\* ------------------------------------------------------------------------
\* State
\* ------------------------------------------------------------------------
VARIABLES
  pc,          \* "idle" between invocations, "done" when an operation has ended
  provider,    \* the adapter the operation was invoked on
  op,          \* the operation invoked
  args,        \* its arguments: repo and input
  calls,       \* the backend calls it issued, in order of issue, each with
               \* the backend's response
  thrown,      \* the value its catch handler received (NoThrow if none)
  why,         \* the backend's reason for that failure
  result,      \* Ok(value), a normalized error, or a defect
  refs,        \* backend: branch name -> tip commit (Undefined if no branch)
  refsBefore,  \* backend branches when the operation was invoked
  config,      \* the configuration the service in use was created from
  pulls        \* backend: the pull requests it held, in its order, when it
               \* answered the list query of the operation (<<>> if none)

vars == <<pc, provider, op, args, calls, thrown, why, result, refs, refsBefore, config, pulls>>

Ok(value) == [tag |-> "ok", value |-> value]
Defect(value) == [tag |-> "defect", value |-> value]
NoThrow == [tag |-> "none"]
None == "<none>"

\* a backend call with the response it got
Resolved(call, data) == call @@ [response |-> [status |-> "ok", data |-> data]]
Rejected(call, e) == call @@ [response |-> [status |-> "error", error |-> e]]
\* issued together with a call that rejected first: its response is not used
Unobserved(call) == call @@ [response |-> [status |-> "unobserved"]]

Min(a, b) == IF a < b THEN a ELSE b
Take(seq, n) == SubSeq(seq, 1, Min(n, Len(seq)))

\* ------------------------------------------------------------------------
\* The backend (external collaborator)
\* ------------------------------------------------------------------------
\* branch names in the backend's native order
BranchList == <<"main", "dev", "unknown">>
BranchNames == {BranchList[i] : i \in 1..Len(BranchList)}

ShaA == "aaaaaaaaaaaaaaaaaaaaaaaaaaaaaaaaaaaaaaaa"
\* a well-formed commit id, in mixed case, that the backend does not hold
ShaB == "0123456789ABCDEFabcdef0123456789ABCDEFab"
\* 39 hexadecimal characters: a ref name, not a commit id
ShaShort == "aaaaaaaaaaaaaaaaaaaaaaaaaaaaaaaaaaaaaaa"
Commits == {ShaA}

FromRefs == {"main", "nope", ShaA, ShaB, ShaShort}

hasBranch(r, name) == name \in DOMAIN r /\ r[name] # Undefined

\* the commit a branch name or commit id stands for, Undefined if none
resolveRef(r, ref) ==
  IF hasBranch(r, ref) THEN r[ref]
  ELSE IF ref \in Commits THEN ref
  ELSE Undefined

\* the branches the backend holds, in its order
RECURSIVE branchesFrom(_, _)
branchesFrom(r, i) ==
  IF i > Len(BranchList) THEN <<>>
  ELSE (IF hasBranch(r, BranchList[i]) THEN <<BranchList[i]>> ELSE <<>>)
         \o branchesFrom(r, i + 1)

\* the default branch as one read of the repository reports it: it may be
\* unset and may change between two reads
DefaultBranches == BranchNames \cup {Undefined}

isProtected(name) == name = "main"

\* the failures a backend answers with when the requested entity is absent
GitHubAbsentErrors ==
  {e \in GitHubErrors : e.tag = "Error" /\ e.hasStatus /\ e.status = 404}

MessageAbsentErrors ==
  {e \in MessageErrors :
     e.tag = "Error" /\ (includes(e.message, "404") \/ includes(e.message, "Not Found"))}

AbsentErrors(p) == IF p = "github" THEN GitHubAbsentErrors ELSE MessageAbsentErrors

\* the failures a backend answers with when it rejects a request as invalid
GitHubRejectErrors ==
  {e \in GitHubErrors : e.tag = "Error" /\ e.hasStatus /\ e.status \in {400, 422}}

MessageRejectErrors ==
  {e \in MessageErrors :
     e.tag = "Error" /\ (includes(e.message, "400") \/ includes(e.message, "422"))}

RejectErrors(p) == IF p = "github" THEN GitHubRejectErrors ELSE MessageRejectErrors

InitRefs == [n \in BranchNames |-> IF n = "main" THEN ShaA ELSE Undefined]

\* the branch sets the backend is found in when an operation is invoked
BackendStates ==
  {InitRefs, [InitRefs EXCEPT !["dev"] = ShaA], [InitRefs EXCEPT !["unknown"] = ShaA]}

\* the configurations a service is created from
ProviderConfigs == {[type |-> t, token |-> "token"] : t \in Providers}

\* the azure-devops tag falls into the gitlab case
createGitForge_AzureAsGitLab(cfg) ==
  CASE cfg.type = "github" -> "github"
    [] cfg.type = "gitlab" -> "gitlab"
    [] cfg.type = "azure-devops" -> "gitlab"

\* the adapter the factory returns for a configuration
createGitForge(cfg) ==
  CASE cfg.type = "github" -> "github"
    [] cfg.type = "gitlab" -> "gitlab"
    [] cfg.type = "azure-devops" -> "azure-devops"

Init ==
  /\ pc = "idle"
  /\ provider = None
  /\ op = None
  /\ args = [repo |-> None]
  /\ calls = <<>>
  /\ thrown = NoThrow
  /\ why = None
  /\ result = [tag |-> None]
  /\ refs = InitRefs
  /\ refsBefore = InitRefs
  /\ config = [type |-> None]
  /\ pulls = <<>>

\* an operation ends: everything it did and returned
Listed(p, o, a, cs, th, w, res, newRefs, backendPulls) ==
  /\ pc = "idle"
  /\ pc' = "done"
  /\ provider' = p
  /\ op' = o
  \* the service came from createGitForge; the adapters never read the
  \* provider field of the Repository they are handed
  /\ \E cfg \in ProviderConfigs, repoProvider \in Providers :
       /\ createGitForge(cfg) = p
       /\ config' = cfg
       /\ args' = [a EXCEPT !.repo = [provider |-> repoProvider] @@ a.repo]
  /\ calls' = cs
  /\ thrown' = th
  /\ why' = w
  /\ result' = res
  /\ refsBefore' = refs
  /\ refs' = newRefs
  /\ pulls' = backendPulls

\* an operation that listed no pull requests ends
Done(p, o, a, cs, th, w, res, newRefs) ==
  Listed(p, o, a, cs, th, w, res, newRefs, <<>>)

\* the rejected call is issued once more before the operation ends
Failed_Retrying(p, o, a, cs, e, w, res) ==
  Done(p, o, a, IF cs = <<>> THEN cs ELSE Append(cs, cs[Len(cs)]), e, w, res, refs)

\* a backend call rejected with e for reason w and ended the operation
Failed(p, o, a, cs, e, w, res) == Done(p, o, a, cs, e, w, res, refs)

\* the caller takes the result; until the next invocation the other clients
\* of the backend may have created or deleted branches and moved their tips
Return ==
  /\ pc = "done"
  /\ pc' = "idle"
  /\ provider' = None
  /\ op' = None
  /\ args' = [repo |-> None]
  /\ calls' = <<>>
  /\ thrown' = NoThrow
  /\ why' = None
  /\ result' = [tag |-> None]
  /\ config' = [type |-> None]
  /\ pulls' = <<>>
  /\ \E r \in BackendStates :
       /\ refs' = r
       /\ refsBefore' = r

Repo(project) == [owner |-> "acme", repo |-> "widgets", project |-> project]

\* commitFile input
FilePath == "README.md"
FileContent == "hello"
CommitMessage == "update readme"
CommitBranches == {"main", "nope"}
\* the commit a file write of the adapter creates
WriteSha == "1111111111111111111111111111111111111111"
\* a commit another client of the backend pushes to the same branch
OtherSha == "2222222222222222222222222222222222222222"

\* the failures drawn for a call whose failure the adapter discards
DiscardedErrors ==
  {NativeError(FALSE, UndefinedNum, "404 Not Found", Undefined),
   NativeError(FALSE, UndefinedNum, "401 Unauthorized", Undefined),
   NativeError(FALSE, UndefinedNum, "400", Undefined)}

\* pull request numbers asked for: 1 exists, 7 does not
PrNumbers == {1, 7}
PrTitle == "Fix"
ListStates == {Undefined, "open", "closed", "all"}
ListLimits == {UndefinedNum, 1}

\* sequences over S of length at most n
RECURSIVE SeqsUpTo(_, _)
SeqsUpTo(S, n) ==
  IF n = 0 THEN {<<>>}
  ELSE LET shorter == SeqsUpTo(S, n - 1)
       IN shorter \cup {Append(q, x) : q \in {t \in shorter : Len(t) = n - 1}, x \in S}

\* the fixture's pull requests get their numbers from their position
Numbered(seq) == [i \in 1..Len(seq) |-> [seq[i] EXCEPT !.number = i]]

\* ------------------------------------------------------------------------
\* GitLab adapter
\* ------------------------------------------------------------------------
getProjectId(owner, repo) == owner \o "/" \o repo

\* every state that is neither merged nor closed counts as open
mapMrState_OpenByDefault(state) ==
  IF state = "merged" THEN "merged"
  ELSE IF state = "closed" THEN "closed"
  ELSE "open"

mapMrState(state) ==
  IF state = "merged" THEN "merged"
  ELSE IF state = "opened" THEN "open"
  ELSE "closed"

GitLabBranchPayload(name, sha) ==
  [name |-> name, commit |-> [id |-> sha], protected |-> isProtected(name)]

\* a merge request as the GitLab backend reports it; draft and
\* work_in_progress are "true", "false" or Undefined (field absent)
MrPayload(number, title, state, draft, wip) ==
  [number |-> number, title |-> title, state |-> state, source_branch |-> "dev",
   target_branch |-> "main", author |-> "alice", draft |-> draft,
   work_in_progress |-> wip]

MrStates == {"opened", "closed", "merged", "locked"}
MrFlags == {Undefined, "true", "false"}

\* the merge requests a GitLab fixture is made of
MrListItems ==
  {MrPayload(0, PrTitle, st, "false", "false") : st \in MrStates}
    \cup {MrPayload(0, "Draft: " \o PrTitle, "opened", "true", "true")}

\* the PullRequest built from a merge request payload
GitLabPullRequest(mr) ==
  PullRequest(100 + mr.number, mr.number, mr.title, mapMrState(mr.state),
              mr.source_branch, mr.target_branch, Coalesce(mr.author, "unknown"),
              Coalesce(mr.draft, Coalesce(mr.work_in_progress, "false")) = "true")

GitLabCreateBranch ==
  /\ pc = "idle"
  /\ \E name \in BranchNames, fromRef \in FromRefs :
       LET repo == Repo(Undefined)
           a == [repo |-> repo, name |-> name, fromRef |-> fromRef]
           projectId == getProjectId(repo.owner, repo.repo)
           create == [api |-> "Branches.create", projectId |-> projectId,
                      name |-> name, ref |-> fromRef]
           show == [api |-> "Projects.show", projectId |-> projectId]
           sha == resolveRef(refs, fromRef)
           created == [refs EXCEPT ![name] = sha]
           catch(e) == mapErrorGitLab(e, "createBranch")
       IN
       \/ \E e \in NativeErrors("gitlab") :
            Failed("gitlab", "createBranch", a, <<Rejected(create, e)>>, e, "fault", catch(e))
       \/ /\ hasBranch(refs, name)
          /\ \E e \in RejectErrors("gitlab") :
               Failed("gitlab", "createBranch", a, <<Rejected(create, e)>>, e,
                      "duplicate", catch(e))
       \/ /\ ~hasBranch(refs, name)
          /\ sha = Undefined
          /\ \E e \in RejectErrors("gitlab") \cup AbsentErrors("gitlab") :
               Failed("gitlab", "createBranch", a, <<Rejected(create, e)>>, e,
                      "unresolved", catch(e))
       \/ /\ ~hasBranch(refs, name)
          /\ sha # Undefined
          /\ LET branch == GitLabBranchPayload(name, sha) IN
             \/ \E e \in NativeErrors("gitlab") :
                  Done("gitlab", "createBranch", a,
                       <<Resolved(create, branch), Rejected(show, e)>>, e, "fault",
                       catch(e), created)
             \/ \E default \in DefaultBranches :
                  LET project == [default_branch |-> default] IN
                  Done("gitlab", "createBranch", a,
                       <<Resolved(create, branch), Resolved(show, project)>>,
                       NoThrow, None,
                       Ok(Branch(branch.name, branch.commit.id,
                                 project.default_branch = branch.name,
                                 branch.protected)),
                       created)

GitLabGetBranch ==
  /\ pc = "idle"
  /\ \E name \in BranchNames \cup {"nope"} :
       LET repo == Repo(Undefined)
           a == [repo |-> repo, name |-> name]
           projectId == getProjectId(repo.owner, repo.repo)
           showBranch == [api |-> "Branches.show", projectId |-> projectId, name |-> name]
           showProject == [api |-> "Projects.show", projectId |-> projectId]
           catch(e) ==
             IF instanceofError(e) /\ includes(toLowerCase(messageOf(e)), "not found")
               THEN NotFoundError("gitlab", "branch", name)
               ELSE mapErrorGitLab(e, "getBranch")
       IN
       \* Promise.all: both reads are issued; the first rejection is caught
       \/ \E e \in NativeErrors("gitlab") :
            Failed("gitlab", "getBranch", a,
                   <<Rejected(showBranch, e), Unobserved(showProject)>>, e, "fault", catch(e))
       \/ /\ ~hasBranch(refs, name)
          /\ \E e \in AbsentErrors("gitlab") :
               Failed("gitlab", "getBranch", a,
                      <<Rejected(showBranch, e), Unobserved(showProject)>>, e, "absent",
                      catch(e))
       \/ \E e \in NativeErrors("gitlab") :
            Failed("gitlab", "getBranch", a,
                   <<Unobserved(showBranch), Rejected(showProject, e)>>, e, "fault", catch(e))
       \/ /\ hasBranch(refs, name)
          /\ \E default \in DefaultBranches :
               LET branch == GitLabBranchPayload(name, refs[name])
                   project == [default_branch |-> default]
               IN Done("gitlab", "getBranch", a,
                       <<Resolved(showBranch, branch), Resolved(showProject, project)>>,
                       NoThrow, None,
                       Ok(Branch(branch.name, branch.commit.id,
                                 project.default_branch = branch.name, branch.protected)),
                       refs)

GitLabListBranches ==
  /\ pc = "idle"
  /\ LET repo == Repo(Undefined)
         a == [repo |-> repo]
         projectId == getProjectId(repo.owner, repo.repo)
         all == [api |-> "Branches.all", projectId |-> projectId, perPage |-> 100]
         showProject == [api |-> "Projects.show", projectId |-> projectId]
         catch(e) == mapErrorGitLab(e, "listBranches")
     IN
     \/ \E e \in NativeErrors("gitlab") :
          Failed("gitlab", "listBranches", a,
                 <<Rejected(all, e), Unobserved(showProject)>>, e, "fault", catch(e))
     \/ \E e \in NativeErrors("gitlab") :
          Failed("gitlab", "listBranches", a,
                 <<Unobserved(all), Rejected(showProject, e)>>, e, "fault", catch(e))
     \/ \E default \in DefaultBranches :
          LET payload(n) == GitLabBranchPayload(n, refs[n])
              branches == [idx \in 1..Len(branchesFrom(refs, 1)) |-> payload(branchesFrom(refs, 1)[idx])]
              project == [default_branch |-> default]
              toBranch(b) == Branch(b.name, b.commit.id, project.default_branch = b.name,
                                    b.protected)
          IN Done("gitlab", "listBranches", a,
                  <<Resolved(all, branches), Resolved(showProject, project)>>,
                  NoThrow, None, Ok([idx \in 1..Len(branches) |-> toBranch(branches[idx])]), refs)

\* the file is created whatever the probe found
GitLabWriteApi_AlwaysCreate(fileExists) == "RepositoryFiles.create"

\* the write the commitFile issues after its existence probe
GitLabWriteApi(fileExists) ==
  IF fileExists THEN "RepositoryFiles.edit" ELSE "RepositoryFiles.create"

GitLabCommitFile ==
  /\ pc = "idle"
  /\ \E branchName \in CommitBranches :
       LET repo == Repo(Undefined)
           a == [repo |-> repo, path |-> FilePath, content |-> FileContent,
                 message |-> CommitMessage, branch |-> branchName]
           projectId == getProjectId(repo.owner, repo.repo)
           probe == [api |-> "RepositoryFiles.show", projectId |-> projectId,
                     path |-> a.path, branch |-> a.branch]
           write(api) == [api |-> api, projectId |-> projectId, path |-> a.path,
                          branch |-> a.branch, content |-> a.content,
                          message |-> a.message]
           showBranch == [api |-> "Branches.show", projectId |-> projectId,
                          name |-> a.branch]
           written == [refs EXCEPT ![a.branch] = WriteSha]
           catch(e) == mapErrorGitLab(e, "commitFile")
       IN
       \* the probe either finds the file or fails; its failure is discarded
       \E probed \in (IF hasBranch(refs, a.branch)
                        THEN {Resolved(probe, [file_path |-> a.path])} ELSE {})
                     \cup {Rejected(probe, e) : e \in DiscardedErrors} :
         LET fileExists == probed.response.status = "ok"
             w == write(GitLabWriteApi(fileExists))
         IN
         \/ \E e \in NativeErrors("gitlab") :
              Failed("gitlab", "commitFile", a, <<probed, Rejected(w, e)>>, e, "fault",
                     catch(e))
         \/ /\ hasBranch(refs, a.branch)
            /\ LET wrote == Resolved(w, [file_path |-> a.path, branch |-> a.branch]) IN
               \/ \E e \in NativeErrors("gitlab") :
                    Done("gitlab", "commitFile", a,
                         <<probed, wrote, Rejected(showBranch, e)>>, e, "fault",
                         catch(e), written)
               \* the tip is read by a call of its own: between the write and the
               \* read another client may have committed to the branch
               \/ \E tip \in {WriteSha, OtherSha} :
                    LET branch == GitLabBranchPayload(a.branch, tip) IN
                    Done("gitlab", "commitFile", a,
                         <<probed, wrote, Resolved(showBranch, branch)>>, NoThrow, None,
                         Ok(CommitResult(branch.commit.id, a.message)),
                         [written EXCEPT ![a.branch] = tip])

\* the title a created merge request gets
GitLabTitle(input) ==
  IF input.draft = "true" THEN "Draft: " \o input.title ELSE input.title

GitLabCreatePullRequest ==
  /\ pc = "idle"
  /\ \E draft \in MrFlags :
       LET repo == Repo(Undefined)
           a == [repo |-> repo, title |-> PrTitle, description |-> Undefined,
                 sourceBranch |-> "dev", targetBranch |-> "main", draft |-> draft]
           projectId == getProjectId(repo.owner, repo.repo)
           title == GitLabTitle(a)
           create == [api |-> "MergeRequests.create", projectId |-> projectId,
                      sourceBranch |-> a.sourceBranch, targetBranch |-> a.targetBranch,
                      title |-> title]
           catch(e) == mapErrorGitLab(e, "createPullRequest")
       IN
       \/ \E e \in NativeErrors("gitlab") :
            Failed("gitlab", "createPullRequest", a, <<Rejected(create, e)>>, e, "fault",
                   catch(e))
       \/ \E d \in MrFlags, wip \in MrFlags :
            LET mr == MrPayload(1, title, "opened", d, wip) IN
            Done("gitlab", "createPullRequest", a, <<Resolved(create, mr)>>, NoThrow,
                 None, Ok(GitLabPullRequest(mr)), refs)

GitLabGetPullRequest ==
  /\ pc = "idle"
  /\ \E number \in PrNumbers :
       LET repo == Repo(Undefined)
           a == [repo |-> repo, number |-> number]
           projectId == getProjectId(repo.owner, repo.repo)
           show == [api |-> "MergeRequests.show", projectId |-> projectId,
                    number |-> number]
           catch(e) ==
             IF instanceofError(e) /\ includes(toLowerCase(messageOf(e)), "not found")
               THEN NotFoundError("gitlab", "pull-request", ToString(number))
               ELSE mapErrorGitLab(e, "getPullRequest")
       IN
       \/ \E e \in NativeErrors("gitlab") :
            Failed("gitlab", "getPullRequest", a, <<Rejected(show, e)>>, e, "fault", catch(e))
       \/ /\ number # 1
          /\ \E e \in AbsentErrors("gitlab") :
               Failed("gitlab", "getPullRequest", a, <<Rejected(show, e)>>, e, "absent",
                      catch(e))
       \/ /\ number = 1
          /\ \E t \in {PrTitle, "Draft: " \o PrTitle}, st \in MrStates,
                d \in MrFlags, wip \in MrFlags :
               LET mr == MrPayload(number, t, st, d, wip) IN
               Done("gitlab", "getPullRequest", a, <<Resolved(show, mr)>>, NoThrow, None,
                    Ok(GitLabPullRequest(mr)), refs)

\* the state filter of a GitLab list query (Undefined: no filter)
GitLabListState(state) ==
  IF state = "all" THEN Undefined
  ELSE IF state = "closed" THEN "closed"
  ELSE "opened"

\* the limit of the caller is not consulted
pageSize_AlwaysDefault(limit) == 30

\* the page size of a list query
pageSize(limit) == IF limit = UndefinedNum THEN 30 ELSE limit

GitLabListPullRequests ==
  /\ pc = "idle"
  /\ \E state \in ListStates, limit \in ListLimits :
       LET repo == Repo(Undefined)
           a == [repo |-> repo, state |-> state, limit |-> limit]
           projectId == getProjectId(repo.owner, repo.repo)
           query == [api |-> "MergeRequests.all", projectId |-> projectId,
                     state |-> GitLabListState(a.state), perPage |-> pageSize(a.limit)]
           catch(e) == mapErrorGitLab(e, "listPullRequests")
       IN
       \/ \E e \in NativeErrors("gitlab") :
            Failed("gitlab", "listPullRequests", a, <<Rejected(query, e)>>, e, "fault",
                   catch(e))
       \/ \E held \in SeqsUpTo(MrListItems, MaxPrs) :
            LET matches(mr) == query.state = Undefined \/ mr.state = query.state
                mrs == Take(SelectSeq(Numbered(held), matches), query.perPage)
            IN Listed("gitlab", "listPullRequests", a, <<Resolved(query, mrs)>>, NoThrow,
                      None, Ok([idx \in 1..Len(mrs) |-> GitLabPullRequest(mrs[idx])]), refs,
                      Numbered(held))

\* ------------------------------------------------------------------------
\* Azure DevOps adapter
\* ------------------------------------------------------------------------
ProjectMessage ==
  "Azure DevOps requires a project name. Set repo.project to the Azure DevOps project name."

ZeroObjectId == "0000000000000000000000000000000000000000"

\* repo.project as the caller may pass it: unset, empty or a project name
AzureProjects == {Undefined, "", "proj"}

\* !value of a string-typed slot
falsy(value) == value = Undefined \/ value = ""

mapPrStateAzure(status) ==
  IF status = 1 THEN "open"
  ELSE IF status = 3 THEN "merged"
  ELSE "closed"

extractBranchName(ref) ==
  IF falsy(ref) THEN "unknown"
  ELSE IF startsWith(ref, "refs/heads/") THEN SubSeq(ref, 12, Len(ref))
  ELSE ref

\* a pull request as the Azure DevOps backend reports it
AzurePrPayload(id, status, isDraft) ==
  [number |-> id, title |-> PrTitle, status |-> status,
   sourceRefName |-> "refs/heads/dev", targetRefName |-> "refs/heads/main",
   displayName |-> "Alice", uniqueName |-> "alice@acme", isDraft |-> isDraft]

AzureStatuses == {UndefinedNum, 1, 2, 3}

AzurePrListItems == {AzurePrPayload(0, st, Undefined) : st \in AzureStatuses}

mapPullRequest(pr) ==
  PullRequest(IF pr.number = UndefinedNum THEN 0 ELSE pr.number,
              IF pr.number = UndefinedNum THEN 0 ELSE pr.number,
              Coalesce(pr.title, ""), mapPrStateAzure(pr.status),
              extractBranchName(pr.sourceRefName), extractBranchName(pr.targetRefName),
              Coalesce(pr.displayName, Coalesce(pr.uniqueName, "unknown")),
              Coalesce(pr.isDraft, "false") = "true")

\* the value getProject returns or throws
getProject(repo) ==
  IF falsy(repo.project)
    THEN [threw |-> TRUE,
          error |-> ValidationError("azure-devops", ProjectMessage, "project")]
    ELSE [threw |-> FALSE, value |-> repo.project]

AzureRef(name, r) ==
  [name |-> "refs/heads/" \o name, objectId |-> r[name], isLocked |-> isProtected(name)]

\* the backend's answer to getRefs: the refs whose name starts with the filter
RECURSIVE azureRefsFrom(_, _, _)
azureRefsFrom(r, filter, i) ==
  IF i > Len(BranchList) THEN <<>>
  ELSE (IF hasBranch(r, BranchList[i]) /\ startsWith("heads/" \o BranchList[i], filter)
          THEN <<AzureRef(BranchList[i], r)>> ELSE <<>>)
         \o azureRefsFrom(r, filter, i + 1)

getGitApiCall == [api |-> "getGitApi"]
getRefsCall(repo, project, filter) ==
  [api |-> "getRefs", repo |-> repo.repo, project |-> project, filter |-> filter]
getRepositoryCall(repo, project) ==
  [api |-> "getRepository", repo |-> repo.repo, project |-> project]

AzureCreateBranch ==
  /\ pc = "idle"
  /\ \E proj \in AzureProjects, name \in BranchNames, fromRef \in FromRefs :
       LET repo == Repo(proj)
           a == [repo |-> repo, name |-> name, fromRef |-> fromRef]
           p == getProject(repo)
           catch(e) ==
             IF e.tag = "ValidationError" \/ e.tag = "NotFoundError" THEN e
             ELSE mapErrorAzure(e, "createBranch")
           fail(cs, e, w) == Failed("azure-devops", "createBranch", a, cs, e, w, catch(e))
       IN
       IF p.threw THEN fail(<<>>, p.error, "project")
       ELSE
         LET project == p.value
             api == Resolved(getGitApiCall, "gitApi")
             lookup == getRefsCall(repo, project, "heads/" \o a.fromRef)
             found == azureRefsFrom(refs, lookup.filter, 1)
             refUpdate(sha) == [name |-> "refs/heads/" \o a.name,
                                oldObjectId |-> ZeroObjectId, newObjectId |-> sha]
             update(sha) == [api |-> "updateRefs", refUpdates |-> <<refUpdate(sha)>>,
                             repo |-> repo.repo, project |-> project]
             getRepo == getRepositoryCall(repo, project)
             \* from the ref update on, after the calls `before`
             create(before, sha) ==
               \/ \E e \in NativeErrors("azure-devops") :
                    fail(before \o <<Rejected(update(sha), e)>>, e, "fault")
               \/ /\ hasBranch(refs, a.name) \/ sha \notin Commits
                  /\ \E customMessage \in {Undefined, "rejected"} :
                       LET results == <<[success |-> FALSE, customMessage |-> customMessage]>>
                           e == ValidationError("azure-devops",
                                  "Failed to create branch: "
                                    \o Coalesce(results[1].customMessage, "unknown error"),
                                  Undefined)
                       IN fail(before \o <<Resolved(update(sha), results)>>, e,
                               IF hasBranch(refs, a.name) THEN "duplicate" ELSE "unresolved")
               \/ /\ ~hasBranch(refs, a.name)
                  /\ sha \in Commits
                  /\ LET updated == Resolved(update(sha), <<[success |-> TRUE]>>)
                         created == [refs EXCEPT ![a.name] = sha]
                     IN
                     \/ \E e \in NativeErrors("azure-devops") :
                          Done("azure-devops", "createBranch", a,
                               before \o <<updated, Rejected(getRepo, e)>>, e, "fault",
                               catch(e), created)
                     \/ \E default \in DefaultBranches :
                          LET repoInfo == [defaultBranch |->
                                             IF default = Undefined THEN Undefined
                                             ELSE "refs/heads/" \o default]
                              defaultBranch == extractBranchName(repoInfo.defaultBranch)
                          IN Done("azure-devops", "createBranch", a,
                                  before \o <<updated, Resolved(getRepo, repoInfo)>>,
                                  NoThrow, None,
                                  Ok(Branch(a.name, sha, defaultBranch = a.name, FALSE)),
                                  created)
         IN
         \/ \E e \in NativeErrors("azure-devops") :
              fail(<<Rejected(getGitApiCall, e)>>, e, "fault")
         \/ /\ isSha(a.fromRef)
            /\ create(<<api>>, a.fromRef)
         \/ /\ ~isSha(a.fromRef)
            /\ \/ \E e \in NativeErrors("azure-devops") :
                    fail(<<api, Rejected(lookup, e)>>, e, "fault")
               \/ /\ found = <<>>
                  /\ fail(<<api, Resolved(lookup, found)>>,
                          NotFoundError("azure-devops", "branch", a.fromRef), "unresolved")
               \/ /\ found # <<>>
                  /\ create(<<api, Resolved(lookup, found)>>, found[1].objectId)

AzureGetBranch ==
  /\ pc = "idle"
  /\ \E proj \in AzureProjects, name \in BranchNames \cup {"nope"} :
       LET repo == Repo(proj)
           a == [repo |-> repo, name |-> name]
           p == getProject(repo)
           catch(e) ==
             IF e.tag = "NotFoundError" THEN e ELSE mapErrorAzure(e, "getBranch")
           fail(cs, e, w) == Failed("azure-devops", "getBranch", a, cs, e, w, catch(e))
       IN
       IF p.threw THEN fail(<<>>, p.error, "project")
       ELSE
         LET project == p.value
             api == Resolved(getGitApiCall, "gitApi")
             lookup == getRefsCall(repo, project, "heads/" \o name)
             found == azureRefsFrom(refs, lookup.filter, 1)
             getRepo == getRepositoryCall(repo, project)
         IN
         \/ \E e \in NativeErrors("azure-devops") :
              fail(<<Rejected(getGitApiCall, e)>>, e, "fault")
         \/ \E e \in NativeErrors("azure-devops") :
              fail(<<api, Rejected(lookup, e)>>, e, "fault")
         \/ /\ found = <<>>
            /\ fail(<<api, Resolved(lookup, found)>>,
                    NotFoundError("azure-devops", "branch", name), "absent")
         \/ /\ found # <<>>
            /\ \/ \E e \in NativeErrors("azure-devops") :
                    fail(<<api, Resolved(lookup, found), Rejected(getRepo, e)>>, e, "fault")
               \/ \E default \in DefaultBranches :
                    LET ref == found[1]
                        repoInfo == [defaultBranch |->
                                       IF default = Undefined THEN Undefined
                                       ELSE "refs/heads/" \o default]
                        defaultBranch == extractBranchName(repoInfo.defaultBranch)
                    IN Done("azure-devops", "getBranch", a,
                            <<api, Resolved(lookup, found), Resolved(getRepo, repoInfo)>>,
                            NoThrow, None,
                            Ok(Branch(name, Coalesce(ref.objectId, ""),
                                      defaultBranch = name, ref.isLocked)),
                            refs)

AzureListBranches ==
  /\ pc = "idle"
  /\ \E proj \in AzureProjects :
       LET repo == Repo(proj)
           a == [repo |-> repo]
           p == getProject(repo)
           catch(e) == mapErrorAzure(e, "listBranches")
           fail(cs, e, w) == Failed("azure-devops", "listBranches", a, cs, e, w, catch(e))
       IN
       IF p.threw THEN fail(<<>>, p.error, "project")
       ELSE
         LET project == p.value
             api == Resolved(getGitApiCall, "gitApi")
             list == getRefsCall(repo, project, "heads/")
             found == azureRefsFrom(refs, list.filter, 1)
             getRepo == getRepositoryCall(repo, project)
         IN
         \/ \E e \in NativeErrors("azure-devops") :
              fail(<<Rejected(getGitApiCall, e)>>, e, "fault")
         \/ \E e \in NativeErrors("azure-devops") :
              fail(<<api, Rejected(list, e), Unobserved(getRepo)>>, e, "fault")
         \/ \E e \in NativeErrors("azure-devops") :
              fail(<<api, Unobserved(list), Rejected(getRepo, e)>>, e, "fault")
         \/ \E default \in DefaultBranches :
              LET repoInfo == [defaultBranch |->
                                 IF default = Undefined THEN Undefined
                                 ELSE "refs/heads/" \o default]
                  defaultBranch == extractBranchName(repoInfo.defaultBranch)
                  toBranch(ref) ==
                    Branch(extractBranchName(ref.name), Coalesce(ref.objectId, ""),
                           extractBranchName(ref.name) = defaultBranch, ref.isLocked)
              IN Done("azure-devops", "listBranches", a,
                      <<api, Resolved(list, found), Resolved(getRepo, repoInfo)>>,
                      NoThrow, None, Ok([idx \in 1..Len(found) |-> toBranch(found[idx])]), refs)

\* every push is an add
pushCall_AlwaysAdd(repo, project, a, oldObjectId, changeType) ==
  [api |-> "createPush",
   refUpdates |-> <<[name |-> "refs/heads/" \o a.branch, oldObjectId |-> oldObjectId]>>,
   commits |-> <<[comment |-> a.message,
                  changes |-> <<[changeType |-> 1,
                                 item |-> [path |-> "/" \o a.path],
                                 newContent |-> [content |-> a.content,
                                                 contentType |-> 0]]>>]>>,
   repo |-> repo.repo, project |-> project]

\* the push a commitFile issues: one ref update and one commit with one change
pushCall(repo, project, a, oldObjectId, changeType) ==
  [api |-> "createPush",
   refUpdates |-> <<[name |-> "refs/heads/" \o a.branch, oldObjectId |-> oldObjectId]>>,
   commits |-> <<[comment |-> a.message,
                  changes |-> <<[changeType |-> changeType,
                                 item |-> [path |-> "/" \o a.path],
                                 newContent |-> [content |-> a.content,
                                                 contentType |-> 0]]>>]>>,
   repo |-> repo.repo, project |-> project]

AzureCommitFile ==
  /\ pc = "idle"
  /\ \E proj \in AzureProjects, branchName \in CommitBranches :
       LET repo == Repo(proj)
           a == [repo |-> repo, path |-> FilePath, content |-> FileContent,
                 message |-> CommitMessage, branch |-> branchName]
           p == getProject(repo)
           fail(cs, e, w, res) == Failed("azure-devops", "commitFile", a, cs, e, w, res)
       IN
       \* getProject throws inside Effect.gen, outside every tryPromise
       IF p.threw THEN fail(<<>>, p.error, "project", Defect(p.error))
       ELSE
         LET project == p.value
             api == Resolved(getGitApiCall, "gitApi")
             lookup == getRefsCall(repo, project, "heads/" \o a.branch)
             found == azureRefsFrom(refs, lookup.filter, 1)
             written == [refs EXCEPT ![a.branch] = WriteSha]
             pushed == [commits |-> <<[commitId |-> WriteSha]>>]
             succeed(cs, push) ==
               Done("azure-devops", "commitFile", a, cs, NoThrow, None,
                    Ok(CommitResult(Coalesce(push.commits[1].commitId, ""), a.message)),
                    written)
         IN
         \/ \E e \in NativeErrors("azure-devops") :
              fail(<<Rejected(getGitApiCall, e)>>, e, "fault",
                   mapErrorAzure(e, "commitFile"))
         \/ \E e \in NativeErrors("azure-devops") :
              fail(<<api, Rejected(lookup, e)>>, e, "fault",
                   mapErrorAzure(e, "commitFile"))
         \/ /\ found = <<>>
            /\ LET e == NotFoundError("azure-devops", "branch", a.branch) IN
               fail(<<api, Resolved(lookup, found)>>, e, "absent", e)
         \/ /\ found # <<>>
            /\ LET objectId == found[1].objectId
                   got == Resolved(lookup, found)
                   add == pushCall(repo, project, a, objectId, 1)
                   edit == pushCall(repo, project, a, objectId, 2)
               IN
               \/ succeed(<<api, got, Resolved(add, pushed)>>, pushed)
               \/ \E first \in DiscardedErrors :
                    \/ succeed(<<api, got, Rejected(add, first), Resolved(edit, pushed)>>,
                               pushed)
                    \/ \E e \in NativeErrors("azure-devops") :
                         fail(<<api, got, Rejected(add, first), Rejected(edit, e)>>, e,
                              "fault", mapErrorAzure(e, "commitFile"))

AzureCreatePullRequest ==
  /\ pc = "idle"
  /\ \E proj \in AzureProjects, draft \in MrFlags :
       LET repo == Repo(proj)
           a == [repo |-> repo, title |-> PrTitle, description |-> Undefined,
                 sourceBranch |-> "dev", targetBranch |-> "main", draft |-> draft]
           p == getProject(repo)
           catch(e) == mapErrorAzure(e, "createPullRequest")
           fail(cs, e, w) ==
             Failed("azure-devops", "createPullRequest", a, cs, e, w, catch(e))
       IN
       IF p.threw THEN fail(<<>>, p.error, "project")
       ELSE
         LET project == p.value
             api == Resolved(getGitApiCall, "gitApi")
             create == [api |-> "createPullRequest", title |-> a.title,
                        sourceRefName |-> "refs/heads/" \o a.sourceBranch,
                        targetRefName |-> "refs/heads/" \o a.targetBranch,
                        isDraft |-> Coalesce(a.draft, "false"),
                        repo |-> repo.repo, project |-> project]
         IN
         \/ \E e \in NativeErrors("azure-devops") :
              fail(<<Rejected(getGitApiCall, e)>>, e, "fault")
         \/ \E e \in NativeErrors("azure-devops") :
              fail(<<api, Rejected(create, e)>>, e, "fault")
         \/ LET pr == AzurePrPayload(1, 1, create.isDraft) IN
            Done("azure-devops", "createPullRequest", a, <<api, Resolved(create, pr)>>,
                 NoThrow, None, Ok(mapPullRequest(pr)), refs)

AzureGetPullRequest ==
  /\ pc = "idle"
  /\ \E proj \in AzureProjects, number \in PrNumbers :
       LET repo == Repo(proj)
           a == [repo |-> repo, number |-> number]
           p == getProject(repo)
           catch(e) ==
             IF e.tag = "NotFoundError" THEN e ELSE mapErrorAzure(e, "getPullRequest")
           fail(cs, e, w) ==
             Failed("azure-devops", "getPullRequest", a, cs, e, w, catch(e))
       IN
       IF p.threw THEN fail(<<>>, p.error, "project")
       ELSE
         LET project == p.value
             api == Resolved(getGitApiCall, "gitApi")
             get == [api |-> "getPullRequest", repo |-> repo.repo, number |-> number,
                     project |-> project]
         IN
         \/ \E e \in NativeErrors("azure-devops") :
              fail(<<Rejected(getGitApiCall, e)>>, e, "fault")
         \/ \E e \in NativeErrors("azure-devops") :
              fail(<<api, Rejected(get, e)>>, e, "fault")
         \/ /\ number # 1
            /\ \/ \E e \in AbsentErrors("azure-devops") :
                    fail(<<api, Rejected(get, e)>>, e, "absent")
               \* the client resolves with no pull request
               \/ fail(<<api, Resolved(get, [number |-> UndefinedNum])>>,
                       NotFoundError("azure-devops", "pull-request", ToString(number)),
                       "absent")
         \/ /\ number = 1
            /\ \E st \in AzureStatuses, d \in MrFlags :
                 LET pr == AzurePrPayload(number, st, d) IN
                 Done("azure-devops", "getPullRequest", a, <<api, Resolved(get, pr)>>,
                      NoThrow, None, Ok(mapPullRequest(pr)), refs)

\* the status a list query asks the Azure DevOps backend for
AzureListStatus(state) ==
  IF state = "all" THEN 4
  ELSE IF state = "closed" THEN 4
  ELSE 1

\* the filter keeps the abandoned pull requests only
AzureListFilter_AbandonedOnly(state, prs) ==
  IF state = "closed"
    THEN SelectSeq(prs, LAMBDA pr : pr.status = 2)
    ELSE prs

\* the local filter of the pull requests the backend returned
AzureListFilter(state, prs) ==
  IF state = "closed"
    THEN SelectSeq(prs, LAMBDA pr : pr.status = 2 \/ pr.status = 3)
    ELSE prs

AzureListPullRequests ==
  /\ pc = "idle"
  /\ \E proj \in AzureProjects, state \in ListStates, limit \in ListLimits :
       LET repo == Repo(proj)
           a == [repo |-> repo, state |-> state, limit |-> limit]
           p == getProject(repo)
           catch(e) == mapErrorAzure(e, "listPullRequests")
           fail(cs, e, w) ==
             Failed("azure-devops", "listPullRequests", a, cs, e, w, catch(e))
       IN
       IF p.threw THEN fail(<<>>, p.error, "project")
       ELSE
         LET project == p.value
             api == Resolved(getGitApiCall, "gitApi")
             status == AzureListStatus(a.state)
             query == [api |-> "getPullRequests", repo |-> repo.repo,
                       searchCriteria |-> [repositoryId |-> repo.repo, status |-> status],
                       project |-> project, top |-> pageSize(a.limit)]
         IN
         \/ \E e \in NativeErrors("azure-devops") :
              fail(<<Rejected(getGitApiCall, e)>>, e, "fault")
         \/ \E e \in NativeErrors("azure-devops") :
              fail(<<api, Rejected(query, e)>>, e, "fault")
         \/ \E held \in SeqsUpTo(AzurePrListItems, MaxPrs) :
              LET matches(pr) == query.searchCriteria.status = 4
                                   \/ pr.status = query.searchCriteria.status
                  returned == Take(SelectSeq(Numbered(held), matches), query.top)
                  prs == AzureListFilter(a.state, returned)
              IN Listed("azure-devops", "listPullRequests", a,
                        <<api, Resolved(query, returned)>>, NoThrow, None,
                        Ok([idx \in 1..Len(prs) |-> mapPullRequest(prs[idx])]), refs,
                        Numbered(held))

\* ------------------------------------------------------------------------
\* GitHub adapter
\* ------------------------------------------------------------------------
Null == "<null>"

\* the merged flag is not consulted
mapPrStateGitHub_IgnoresMerged(state, merged) ==
  IF state = "open" THEN "open" ELSE "closed"

mapPrStateGitHub(state, merged) ==
  IF merged THEN "merged"
  ELSE IF state = "open" THEN "open"
  ELSE "closed"

GitHubBranchPayload(name, sha) ==
  [name |-> name, commit |-> [sha |-> sha], protected |-> isProtected(name)]

\* a pull request as the GitHub backend reports it: `merged` on the detail
\* payload, `merged_at` on the list payload
GitHubPrPayload(number, state, merged, mergedAt, draft) ==
  [number |-> number, title |-> PrTitle, state |-> state, merged |-> merged,
   merged_at |-> mergedAt, head |-> [ref |-> "dev"], base |-> [ref |-> "main"],
   login |-> "alice", draft |-> draft]

GitHubStates == {"open", "closed"}
MergedAt == "2024-01-01T00:00:00Z"

GitHubPrListItems ==
  {GitHubPrPayload(0, "open", Undefined, Null, Undefined),
   GitHubPrPayload(0, "closed", Undefined, Null, Undefined),
   GitHubPrPayload(0, "closed", Undefined, MergedAt, Undefined)}

\* the PullRequest built from a detail payload and from a list payload
GitHubPullRequest(data) ==
  PullRequest(1000 + data.number, data.number, data.title,
              mapPrStateGitHub(data.state, Coalesce(data.merged, "false") = "true"),
              data.head.ref, data.base.ref, Coalesce(data.login, "unknown"),
              Coalesce(data.draft, "false") = "true")

GitHubListedPullRequest(pr) ==
  PullRequest(1000 + pr.number, pr.number, pr.title,
              mapPrStateGitHub(pr.state, pr.merged_at # Null),
              pr.head.ref, pr.base.ref, Coalesce(pr.login, "unknown"),
              Coalesce(pr.draft, "false") = "true")

reposGetCall(repo) == [api |-> "repos.get", owner |-> repo.owner, repo |-> repo.repo]

GitHubCreateBranch ==
  /\ pc = "idle"
  /\ \E name \in BranchNames, fromRef \in FromRefs :
       LET repo == Repo(Undefined)
           a == [repo |-> repo, name |-> name, fromRef |-> fromRef]
           getRef == [api |-> "git.getRef", owner |-> repo.owner, repo |-> repo.repo,
                      ref |-> "heads/" \o a.fromRef]
           createRef(sha) == [api |-> "git.createRef", owner |-> repo.owner,
                              repo |-> repo.repo, ref |-> "refs/heads/" \o a.name,
                              sha |-> sha]
           get == reposGetCall(repo)
           catch(e) == mapErrorGitHub(e, "createBranch")
           fail(cs, e, w) == Failed("github", "createBranch", a, cs, e, w, catch(e))
           \* from the ref creation on, after the calls `before`
           create(before, sha) ==
             \/ \E e \in NativeErrors("github") :
                  fail(before \o <<Rejected(createRef(sha), e)>>, e, "fault")
             \/ /\ hasBranch(refs, a.name) \/ sha \notin Commits
                /\ \E e \in RejectErrors("github") :
                     fail(before \o <<Rejected(createRef(sha), e)>>, e,
                          IF hasBranch(refs, a.name) THEN "duplicate" ELSE "unresolved")
             \/ /\ ~hasBranch(refs, a.name)
                /\ sha \in Commits
                /\ LET made == Resolved(createRef(sha),
                                        [ref |-> "refs/heads/" \o a.name,
                                         object |-> [sha |-> sha]])
                       created == [refs EXCEPT ![a.name] = sha]
                   IN
                   \/ \E e \in NativeErrors("github") :
                        Done("github", "createBranch", a,
                             before \o <<made, Rejected(get, e)>>, e, "fault", catch(e),
                             created)
                   \/ \E default \in DefaultBranches :
                        LET repoData == [default_branch |-> default] IN
                        Done("github", "createBranch", a,
                             before \o <<made, Resolved(get, repoData)>>, NoThrow, None,
                             Ok(Branch(a.name, sha, repoData.default_branch = a.name,
                                       FALSE)),
                             created)
       IN
       \/ /\ isSha(a.fromRef)
          /\ create(<<>>, a.fromRef)
       \/ /\ ~isSha(a.fromRef)
          /\ \/ \E e \in NativeErrors("github") :
                  fail(<<Rejected(getRef, e)>>, e, "fault")
             \/ /\ ~hasBranch(refs, a.fromRef)
                /\ \E e \in AbsentErrors("github") :
                     fail(<<Rejected(getRef, e)>>, e, "unresolved")
             \/ /\ hasBranch(refs, a.fromRef)
                /\ LET ref == [ref |-> "refs/heads/" \o a.fromRef,
                               object |-> [sha |-> refs[a.fromRef]]]
                   IN create(<<Resolved(getRef, ref)>>, ref.object.sha)

GitHubGetBranch ==
  /\ pc = "idle"
  /\ \E name \in BranchNames \cup {"nope"} :
       LET repo == Repo(Undefined)
           a == [repo |-> repo, name |-> name]
           getBranch == [api |-> "repos.getBranch", owner |-> repo.owner,
                         repo |-> repo.repo, branch |-> name]
           get == reposGetCall(repo)
           catch(e) ==
             IF instanceofError(e) /\ "hasStatus" \in DOMAIN e /\ e.hasStatus
                  /\ e.status = 404
               THEN NotFoundError("github", "branch", name)
               ELSE mapErrorGitHub(e, "getBranch")
           fail(cs, e, w) == Failed("github", "getBranch", a, cs, e, w, catch(e))
       IN
       \* Promise.all: both reads are issued; the first rejection is caught
       \/ \E e \in NativeErrors("github") :
            fail(<<Rejected(getBranch, e), Unobserved(get)>>, e, "fault")
       \/ /\ ~hasBranch(refs, name)
          /\ \E e \in AbsentErrors("github") :
               fail(<<Rejected(getBranch, e), Unobserved(get)>>, e, "absent")
       \/ \E e \in NativeErrors("github") :
            fail(<<Unobserved(getBranch), Rejected(get, e)>>, e, "fault")
       \/ /\ hasBranch(refs, name)
          /\ \E default \in DefaultBranches :
               LET branchRes == [data |-> GitHubBranchPayload(name, refs[name])]
                   repoRes == [data |-> [default_branch |-> default]]
               IN Done("github", "getBranch", a,
                       <<Resolved(getBranch, branchRes.data), Resolved(get, repoRes.data)>>,
                       NoThrow, None,
                       Ok(Branch(branchRes.data.name, branchRes.data.commit.sha,
                                 repoRes.data.default_branch = name,
                                 branchRes.data.protected)),
                       refs)

GitHubListBranches ==
  /\ pc = "idle"
  /\ LET repo == Repo(Undefined)
         a == [repo |-> repo]
         list == [api |-> "repos.listBranches", owner |-> repo.owner,
                  repo |-> repo.repo, per_page |-> 100]
         get == reposGetCall(repo)
         catch(e) == mapErrorGitHub(e, "listBranches")
         fail(cs, e, w) == Failed("github", "listBranches", a, cs, e, w, catch(e))
     IN
     \/ \E e \in NativeErrors("github") :
          fail(<<Rejected(list, e), Unobserved(get)>>, e, "fault")
     \/ \E e \in NativeErrors("github") :
          fail(<<Unobserved(list), Rejected(get, e)>>, e, "fault")
     \/ \E default \in DefaultBranches :
          LET payload(n) == GitHubBranchPayload(n, refs[n])
              branchesRes == [data |-> [idx \in 1..Len(branchesFrom(refs, 1)) |-> payload(branchesFrom(refs, 1)[idx])]]
              repoRes == [data |-> [default_branch |-> default]]
              toBranch(b) == Branch(b.name, b.commit.sha,
                                    repoRes.data.default_branch = b.name, b.protected)
          IN Done("github", "listBranches", a,
                  <<Resolved(list, branchesRes.data), Resolved(get, repoRes.data)>>,
                  NoThrow, None, Ok([idx \in 1..Len(branchesRes.data) |-> toBranch(branchesRes.data[idx])]), refs)

GitHubCreatePullRequest ==
  /\ pc = "idle"
  /\ \E draft \in MrFlags :
       LET repo == Repo(Undefined)
           a == [repo |-> repo, title |-> PrTitle, description |-> Undefined,
                 sourceBranch |-> "dev", targetBranch |-> "main", draft |-> draft]
           create == [api |-> "pulls.create", owner |-> repo.owner, repo |-> repo.repo,
                      title |-> a.title, head |-> a.sourceBranch,
                      base |-> a.targetBranch, draft |-> Coalesce(a.draft, "false")]
           catch(e) == mapErrorGitHub(e, "createPullRequest")
       IN
       \/ \E e \in NativeErrors("github") :
            Failed("github", "createPullRequest", a, <<Rejected(create, e)>>, e, "fault",
                   catch(e))
       \/ \E merged \in {Undefined, "false"} :
            LET data == GitHubPrPayload(1, "open", merged, Null, create.draft) IN
            Done("github", "createPullRequest", a, <<Resolved(create, data)>>, NoThrow,
                 None, Ok(GitHubPullRequest(data)), refs)

GitHubGetPullRequest ==
  /\ pc = "idle"
  /\ \E number \in PrNumbers :
       LET repo == Repo(Undefined)
           a == [repo |-> repo, number |-> number]
           get == [api |-> "pulls.get", owner |-> repo.owner, repo |-> repo.repo,
                   pull_number |-> number]
           catch(e) ==
             IF instanceofError(e) /\ "hasStatus" \in DOMAIN e /\ e.hasStatus
                  /\ e.status = 404
               THEN NotFoundError("github", "pull-request", ToString(number))
               ELSE mapErrorGitHub(e, "getPullRequest")
           fail(cs, e, w) == Failed("github", "getPullRequest", a, cs, e, w, catch(e))
       IN
       \/ \E e \in NativeErrors("github") :
            fail(<<Rejected(get, e)>>, e, "fault")
       \/ /\ number # 1
          /\ \E e \in AbsentErrors("github") :
               fail(<<Rejected(get, e)>>, e, "absent")
       \/ /\ number = 1
          /\ \E st \in GitHubStates, merged \in MrFlags, d \in MrFlags :
               LET data == GitHubPrPayload(number, st, merged,
                                           IF merged = "true" THEN MergedAt ELSE Null, d)
               IN Done("github", "getPullRequest", a, <<Resolved(get, data)>>, NoThrow,
                       None, Ok(GitHubPullRequest(data)), refs)

\* the state filter of a GitHub list query
GitHubListState(state) ==
  IF state = "all" THEN "all"
  ELSE IF state = "closed" THEN "closed"
  ELSE "open"

GitHubListPullRequests ==
  /\ pc = "idle"
  /\ \E state \in ListStates, limit \in ListLimits :
       LET repo == Repo(Undefined)
           a == [repo |-> repo, state |-> state, limit |-> limit]
           query == [api |-> "pulls.list", owner |-> repo.owner, repo |-> repo.repo,
                     state |-> GitHubListState(a.state), per_page |-> pageSize(a.limit)]
           catch(e) == mapErrorGitHub(e, "listPullRequests")
       IN
       \/ \E e \in NativeErrors("github") :
            Failed("github", "listPullRequests", a, <<Rejected(query, e)>>, e, "fault",
                   catch(e))
       \/ \E held \in SeqsUpTo(GitHubPrListItems, MaxPrs) :
            LET matches(pr) == query.state = "all" \/ pr.state = query.state
                data == Take(SelectSeq(Numbered(held), matches), query.per_page)
            IN Listed("github", "listPullRequests", a, <<Resolved(query, data)>>, NoThrow,
                      None, Ok([idx \in 1..Len(data) |-> GitHubListedPullRequest(data[idx])]),
                      refs, Numbered(held))

Next ==
  \/ GitLabCreateBranch
  \/ GitLabGetBranch
  \/ GitLabListBranches
  \/ GitLabCommitFile
  \/ GitLabCreatePullRequest
  \/ GitLabGetPullRequest
  \/ GitLabListPullRequests
  \/ AzureCreateBranch
  \/ AzureGetBranch
  \/ AzureListBranches
  \/ AzureCommitFile
  \/ AzureCreatePullRequest
  \/ AzureGetPullRequest
  \/ AzureListPullRequests
  \/ GitHubCreateBranch
  \/ GitHubGetBranch
  \/ GitHubListBranches
  \/ GitHubCreatePullRequest
  \/ GitHubGetPullRequest
  \/ GitHubListPullRequests
  \/ Return

Spec == Init /\ [][Next]_vars

\* ------------------------------------------------------------------------
\* Vocabulary of the properties
\* ------------------------------------------------------------------------
Ended == pc = "done"
Succeeded == pc = "done" /\ result.tag = "ok"

\* the operation ended because a backend call failed with a native error
NativeFailure == pc = "done" /\ thrown.tag \in {"Error", "NonError"}

\* the numeric class of a native failure: the status for GitHub, the status
\* code in the message for GitLab and Azure DevOps
hasClass(p, e, code) ==
  /\ e.tag = "Error"
  /\ IF p = "github" THEN e.hasStatus /\ e.status = code
     ELSE includes(e.message, ToString(code))

\* the message of the failure contains the text, in any case
mentions(e, text) == e.tag = "Error" /\ includes(toLowerCase(e.message), text)

\* the failure matches a row of the classification table
authRow(p, e) == hasClass(p, e, 401) \/ hasClass(p, e, 403) \/ mentions(e, "unauthorized")
notFoundRow(p, e) == hasClass(p, e, 404) \/ mentions(e, "not found")
validationRow(p, e) == hasClass(p, e, 422) \/ hasClass(p, e, 400) \/ mentions(e, "invalid")
rateLimitRow(p, e) == hasClass(p, e, 429) \/ mentions(e, "rate limit")

\* no status code and no text of any row, under either reading of the class
unclassified(e) ==
  \/ e.tag = "NonError"
  \/ /\ e.tag = "Error"
     /\ ~(e.hasStatus /\ e.status \in {400, 401, 403, 404, 422, 429})
     /\ \A text \in {"400", "401", "403", "404", "422", "429", "unauthorized",
                     "not found", "invalid", "rate limit"} : ~mentions(e, text)

OperationNames ==
  {"createBranch", "getBranch", "listBranches", "commitFile", "createPullRequest",
   "getPullRequest", "listPullRequests"}

\* the positions in `calls` of the calls to one of the apis
callsTo(apis) == {i \in 1..Len(calls) : calls[i].api \in apis}

LookupApis == {"git.getRef", "getRefs"}
CreateApis == {"git.createRef", "updateRefs", "Branches.create"}

\* 40 hexadecimal characters
hex40(ref) ==
  /\ Len(ref) = 40
  /\ \A i \in 1..40 : \E j \in 1..22 : SubSeq(ref, i, i) = SubSeq("0123456789abcdefABCDEF", j, j)

\* ------------------------------------------------------------------------
\* Properties
\* ------------------------------------------------------------------------

\* C1: on the Azure DevOps adapter, createBranch, getBranch, listBranches and
\* commitFile with repo.project unset fail with ValidationError(field =
\* "project") and issue no backend call before.
C1_ProjectRequired ==
  (/\ Ended
   /\ provider = "azure-devops"
   /\ op \in {"createBranch", "getBranch", "listBranches", "commitFile"}
   /\ falsy(args.repo.project))
    => /\ result.tag = "ValidationError"
       /\ result.field = "project"
       /\ calls = <<>>

\* C2: a 404-class native failure of a backend call of getBranch(repo, name)
\* yields NotFoundError(branch, name), and one of getPullRequest(repo, number)
\* yields NotFoundError(pull-request, String(number)), on every adapter.
C2_NotFoundIdentifies ==
  (NativeFailure /\ hasClass(provider, thrown, 404))
    => /\ op = "getBranch"
            => result = NotFoundError(provider, "branch", args.name)
       /\ op = "getPullRequest"
            => result = NotFoundError(provider, "pull-request", ToString(args.number))

\* C3: on every adapter and operation a native failure of class 401 or 403
\* yields AuthenticationError and one of class 429 yields RateLimitError.
C3_AuthAndRateLimit ==
  NativeFailure
    => /\ (hasClass(provider, thrown, 401) \/ hasClass(provider, thrown, 403))
            => result.tag = "AuthenticationError"
       /\ hasClass(provider, thrown, 429) => result.tag = "RateLimitError"

\* C4: a native failure that matches no row of the classification table ends
\* the operation with a GitForgeError whose operation is the operation the
\* caller invoked and whose cause is the native error.
C4_GenericCarriesOperation ==
  (NativeFailure /\ unclassified(thrown))
    => /\ result.tag = "GitForgeError"
       /\ op \in OperationNames
       /\ result.operation = op
       /\ result.cause = thrown
       /\ result.provider = provider

C4_Witness ==
  /\ NativeFailure
  /\ unclassified(thrown)
  /\ thrown.tag = "Error"
  /\ thrown.message = ""
  /\ provider = "azure-devops"
  /\ op = "listPullRequests"
  /\ result.tag = "GitForgeError"
  /\ result.operation = "listPullRequests"

\* C5: a native error whose message matches both an authentication marker
\* ("401", "unauthorized") and a not-found marker ("404", "not found") is
\* reported as AuthenticationError, the first matching row, on every
\* operation, getBranch and getPullRequest included.
C5_AuthenticationBeforeNotFound ==
  (/\ NativeFailure
   /\ provider # "github"
   /\ mentions(thrown, "401") \/ mentions(thrown, "unauthorized")
   /\ mentions(thrown, "404") \/ mentions(thrown, "not found"))
    => result.tag = "AuthenticationError"

\* C6: a native failure of class 422 or 400, or whose message contains
\* "invalid" in any case, that matches no authentication and no not-found
\* marker, is mapped to ValidationError on every adapter.
C6_ValidationRow ==
  (/\ NativeFailure
   /\ validationRow(provider, thrown)
   /\ ~authRow(provider, thrown)
   /\ ~notFoundRow(provider, thrown))
    => result.tag = "ValidationError"

\* the merge request payload carries a draft signal: the title prefix or a
\* true work-in-progress flag
draftSignalled(mr) == startsWith(mr.title, "Draft: ") \/ mr.work_in_progress = "true"

\* C7: on the GitLab adapter, createPullRequest with draft: true sends the
\* title prefixed "Draft: " and returns draft: true, and getPullRequest and
\* listPullRequests report draft: true for every merge request whose payload
\* carries the title prefix or a true work-in-progress flag, whatever the
\* other signal is.
C7_DraftEitherSignal ==
  (Succeeded /\ provider = "gitlab")
    => /\ (op = "createPullRequest" /\ args.draft = "true")
            => /\ calls[1].title = "Draft: " \o args.title
               /\ result.value.draft
       /\ op = "getPullRequest"
            => (draftSignalled(calls[1].response.data) => result.value.draft)
       /\ op = "listPullRequests"
            => \A i \in 1..Len(result.value) :
                 draftSignalled(calls[1].response.data[i]) => result.value[i].draft

\* the commit the source ref of a createBranch stood for when it was invoked
sourceCommit ==
  IF hex40(args.fromRef) THEN args.fromRef
  ELSE IF hasBranch(refsBefore, args.fromRef) THEN refsBefore[args.fromRef]
  ELSE Undefined

\* every create call of the operation comes after a lookup that resolved
lookupBeforeCreate ==
  \A c \in callsTo(CreateApis) :
    \E l \in callsTo(LookupApis) : l < c /\ calls[l].response.status = "ok"

C9_CreateBranchFailures ==
  (Ended /\ op = "createBranch")
    => /\ why = "unresolved"
            => result.tag = "NotFoundError" /\ callsTo(CreateApis) = {}
       /\ why = "duplicate" => result.tag = "ValidationError"

\* C10: Azure DevOps listPullRequests({state: "closed"}) asks the backend for
\* status 4 and returns, in the backend's order, exactly the returned pull
\* requests of native status 2 or 3.
C10_AzureClosedList ==
  (/\ Succeeded
   /\ provider = "azure-devops"
   /\ op = "listPullRequests"
   /\ args.state = "closed")
    => LET query == calls[Len(calls)]
           returned == query.response.data
           listed == result.value
           closed == {j \in 1..Len(returned) : returned[j].status \in {2, 3}}
       IN /\ query.api = "getPullRequests"
          /\ query.searchCriteria.status = 4
          /\ Len(listed) = Cardinality(closed)
          /\ \A j \in closed : \E i \in 1..Len(listed) : listed[i].number = returned[j].number
          /\ \A i \in 1..Len(listed) :
               \E j \in closed : returned[j].number = listed[i].number
          /\ \A i, k \in 1..Len(listed) : i < k =>
               \E j, l \in closed :
                 /\ j < l
                 /\ returned[j].number = listed[i].number
                 /\ returned[l].number = listed[k].number

\* the backend returned an open, an abandoned and a completed pull request
C10_Witness ==
  /\ Succeeded
  /\ provider = "azure-devops"
  /\ op = "listPullRequests"
  /\ args.state = "closed"
  /\ LET returned == calls[Len(calls)].response.data IN
     /\ Len(returned) = 3
     /\ {returned[j].status : j \in 1..3} = {1, 2, 3}
  /\ Len(result.value) = 2

\* the pull request payloads an operation received, paired by position with
\* the pull requests it returned
returnedPairs ==
  IF op = "listPullRequests"
    THEN {<<calls[Len(calls)].response.data[i], result.value[i]>> :
            i \in 1..Len(result.value)}
    ELSE {<<calls[Len(calls)].response.data, result.value>>}

PullRequestStates == {"open", "closed", "merged"}

\* the GitHub payload marks the pull request as merged: the merged flag of a
\* detail payload, the merge time of a list payload
markedMerged(payload) == payload.merged = "true" \/ payload.merged_at # Null

\* C11: every pull request the GitHub adapter returns from createPullRequest,
\* getPullRequest or listPullRequests has state open, closed or merged, and has
\* state merged whenever its payload marks it as merged, whatever the native
\* state is.
C11_GitHubMergedWins ==
  (/\ Succeeded
   /\ provider = "github"
   /\ op \in {"createPullRequest", "getPullRequest", "listPullRequests"})
    => \A pair \in returnedPairs :
         /\ pair[2].state \in PullRequestStates
         /\ markedMerged(pair[1]) => pair[2].state = "merged"

\* a closed and merged pull request was fetched and reported as merged
C11_Witness ==
  /\ Succeeded
  /\ provider = "github"
  /\ op = "getPullRequest"
  /\ calls[1].response.data.state = "closed"
  /\ calls[1].response.data.merged = "true"
  /\ result.value.state = "merged"

\* the response data of the one call of the operation to one of the apis
dataOf(apis) == calls[CHOOSE i \in callsTo(apis) : TRUE].response.data

BranchListApis == {"Branches.all", "repos.listBranches", "getRefs"}
RepositoryApis == {"Projects.show", "repos.get", "getRepository"}

\* the branch name a list entry of the backend stands for
listedName(item) ==
  IF provider = "azure-devops" THEN SubSeq(item.name, Len("refs/heads/") + 1, Len(item.name))
  ELSE item.name

\* the default branch name the repository read reported, Undefined if none
reportedDefault ==
  LET repository == dataOf(RepositoryApis) IN
  IF provider = "azure-devops"
    THEN IF repository.defaultBranch = Undefined THEN Undefined
         ELSE SubSeq(repository.defaultBranch, Len("refs/heads/") + 1,
                     Len(repository.defaultBranch))
    ELSE repository.default_branch

\* C12: on every adapter listBranches returns one Branch per entry of the
\* backend's list, in the backend's order, with isDefault true exactly for the
\* entries named as the repository's default branch.
C12_ListBranchesDefault ==
  (Succeeded /\ op = "listBranches")
    => LET listed == dataOf(BranchListApis) IN
       /\ Len(result.value) = Len(listed)
       /\ \A i \in 1..Len(listed) :
            /\ result.value[i].name = listedName(listed[i])
            /\ result.value[i].isDefault <=> (listedName(listed[i]) = reportedDefault)

\* a backend call without the response it got
request(call) == [f \in DOMAIN call \ {"response"} |-> call[f]]

changeTypeOf(push) == push.commits[1].changes[1].changeType

\* C13: the Azure DevOps commitFile resolves the branch tip once and then
\* pushes with change type add (1); only if that push fails it pushes once
\* more, the same push with change type edit (2) against the same tip; it
\* pushes at most twice, never edit before add, and not at all when the tip
\* lookup fails.
C13_AddThenEdit ==
  (Ended /\ provider = "azure-devops" /\ op = "commitFile")
    => LET lookups == callsTo({"getRefs"})
           pushes == callsTo({"createPush"})
       IN /\ Cardinality(lookups) <= 1
          /\ Cardinality(pushes) <= 2
          /\ pushes # {}
               => \E l \in lookups :
                    /\ calls[l].response.status = "ok"
                    /\ calls[l].response.data # <<>>
                    /\ \A q \in pushes :
                         /\ l < q
                         /\ calls[q].refUpdates[1].oldObjectId
                              = calls[l].response.data[1].objectId
          /\ \A q \in pushes :
               LET earlier == {r \in pushes : r < q} IN
               /\ earlier = {} => changeTypeOf(calls[q]) = 1
               /\ \A r \in earlier :
                    /\ calls[r].response.status = "error"
                    /\ request(calls[q])
                         = [request(calls[r]) EXCEPT !.commits[1].changes[1].changeType = 2]
          /\ \A q \in pushes :
               calls[q].response.status = "error" /\ changeTypeOf(calls[q]) = 1
                 => \E r \in pushes : r > q

\* the add was rejected and the edit against the same tip went through
C13_Witness ==
  /\ Succeeded
  /\ provider = "azure-devops"
  /\ op = "commitFile"
  /\ Len(calls) = 4
  /\ calls[3].api = "createPush"
  /\ changeTypeOf(calls[3]) = 1
  /\ calls[3].response.status = "error"
  /\ calls[4].api = "createPush"
  /\ changeTypeOf(calls[4]) = 2
  /\ calls[4].response.status = "ok"
  /\ calls[4].refUpdates[1].oldObjectId = calls[3].refUpdates[1].oldObjectId

\* C14: every operation that does not succeed ends with a value of one of the
\* five normalized kinds in its error channel, never with a native error or a
\* defect.
C14_FailuresNormalized ==
  (Ended /\ result.tag # "ok") => result.tag \in ForgeErrorTags

\* the page size a list call asks the backend for, Undefined if it names none
pageSizeOf(call) ==
  IF "perPage" \in DOMAIN call THEN call.perPage
  ELSE IF "per_page" \in DOMAIN call THEN call.per_page
  ELSE IF "top" \in DOMAIN call THEN call.top
  ELSE UndefinedNum

\* C15: on every adapter listBranches issues at most one list call, that call
\* asks for a page of 100 items, and the returned sequence has at most 100
\* entries.
C15_SinglePageOfHundred ==
  (Ended /\ op = "listBranches")
    => /\ Cardinality(callsTo(BranchListApis)) <= 1
       /\ \A i \in callsTo(BranchListApis) : pageSizeOf(calls[i]) = 100
       /\ result.tag = "ok" => Len(result.value) <= 100

PullRequestListApis == {"MergeRequests.all", "pulls.list", "getPullRequests"}

\* the list query asks the backend for the open pull requests only
asksForOpen(call) ==
  IF provider = "github" THEN call.state = "open"
  ELSE IF provider = "gitlab" THEN call.state = "opened"
  ELSE call.searchCriteria.status = 1

\* C16: on every adapter listPullRequests with state omitted asks the backend
\* for the open pull requests only, with limit omitted asks for a page of 30,
\* and passes a supplied limit unchanged as the page size.
C16_ListDefaults ==
  (Ended /\ op = "listPullRequests")
    => \A i \in callsTo(PullRequestListApis) :
         /\ args.state = Undefined => asksForOpen(calls[i])
         /\ args.limit = UndefinedNum => pageSizeOf(calls[i]) = 30
         /\ args.limit # UndefinedNum => pageSizeOf(calls[i]) = args.limit

\* Azure DevOps listed with state omitted and a limit of one
C16_Witness ==
  /\ Succeeded
  /\ provider = "azure-devops"
  /\ op = "listPullRequests"
  /\ args.state = Undefined
  /\ args.limit = 1
  /\ calls[2].searchCriteria.status = 1
  /\ calls[2].top = 1
  /\ Len(result.value) = 1

\* C17: createGitForge returns, for each of the three configuration tags, the
\* adapter of that tag: every error an operation of the service produces
\* carries the tag as its provider, whatever the provider field of the
\* Repository handed to the operation is.
C17_ErrorsCarryConfiguredProvider ==
  Ended
    => /\ config \in ProviderConfigs
       /\ provider = config.type
       /\ result.tag \in ForgeErrorTags => result.provider = config.type

\* an Azure DevOps service failed on a Repository that names github
C17_Witness ==
  /\ Ended
  /\ config.type = "azure-devops"
  /\ args.repo.provider = "github"
  /\ op = "getPullRequest"
  /\ result.tag = "NotFoundError"
  /\ result.provider = "azure-devops"

\* the failure of the call is discarded by design: the existence probe of the
\* GitLab commitFile
swallowed(call) ==
  provider = "gitlab" /\ op = "commitFile" /\ call.api = "RepositoryFiles.show"

\* C18: in every operation but the Azure DevOps commitFile, no backend call is
\* issued twice, and the first backend failure that is not the GitLab
\* commitFile probe ends the operation with the error mapped from it: the
\* calls listed after it were issued together with it and none is awaited.
C18_NoRetryElsewhere ==
  (Ended /\ ~(provider = "azure-devops" /\ op = "commitFile"))
    => /\ \A i, j \in 1..Len(calls) : i # j => calls[i].api # calls[j].api
       /\ \A i \in 1..Len(calls) :
            (calls[i].response.status = "error" /\ ~swallowed(calls[i]))
              => /\ \A j \in (i + 1)..Len(calls) : calls[j].response.status = "unobserved"
                 /\ thrown = calls[i].response.error
                 /\ result.tag \in ForgeErrorTags

\* the GitHub createBranch resolved the source and stopped at the rejected
\* ref creation
C18_Witness ==
  /\ Ended
  /\ provider = "github"
  /\ op = "createBranch"
  /\ Len(calls) = 2
  /\ calls[1].api = "git.getRef"
  /\ calls[1].response.status = "ok"
  /\ calls[2].api = "git.createRef"
  /\ calls[2].response.status = "error"
  /\ result.tag = "GitForgeError"

GitLabWriteApis == {"RepositoryFiles.edit", "RepositoryFiles.create"}

\* C19: the GitLab commitFile issues the existence probe, then exactly one
\* write, then the branch-tip read; the write is an edit if and only if the
\* probe succeeded and a create if the probe failed, for whatever reason; the
\* branch-tip read is issued only after the write succeeded.
C19_ProbeWriteRead ==
  (Ended /\ provider = "gitlab" /\ op = "commitFile")
    => /\ Len(calls) \in {2, 3}
       /\ calls[1].api = "RepositoryFiles.show"
       /\ callsTo(GitLabWriteApis) = {2}
       /\ calls[2].api = "RepositoryFiles.edit" <=> calls[1].response.status = "ok"
       /\ calls[2].api = "RepositoryFiles.create" <=> calls[1].response.status = "error"
       /\ Len(calls) = 3 <=> calls[2].response.status = "ok"
       /\ Len(calls) = 3 => calls[3].api = "Branches.show"

\* the probe was refused for missing credentials, the file was created and
\* the branch tip read
C19_Witness ==
  /\ Succeeded
  /\ provider = "gitlab"
  /\ op = "commitFile"
  /\ calls[1].response.status = "error"
  /\ calls[1].response.error.message = "401 Unauthorized"
  /\ calls[2].api = "RepositoryFiles.create"
  /\ calls[3].api = "Branches.show"
  /\ result.value.sha = calls[3].response.data.commit.id

\* C20: every merge request the GitLab adapter returns has state open if and
\* only if its native state is "opened", merged if and only if it is
\* "merged", and closed for every other native state.
C20_GitLabStates ==
  (/\ Succeeded
   /\ provider = "gitlab"
   /\ op \in {"createPullRequest", "getPullRequest", "listPullRequests"})
    => \A pair \in returnedPairs :
         /\ pair[2].state = "open" <=> pair[1].state = "opened"
         /\ pair[2].state = "merged" <=> pair[1].state = "merged"
         /\ pair[2].state = "closed" <=> pair[1].state \notin {"opened", "merged"}

\* a locked merge request was fetched and reported as closed
C20_Witness ==
  /\ Succeeded
  /\ provider = "gitlab"
  /\ op = "getPullRequest"
  /\ calls[1].response.data.state = "locked"
  /\ result.value.state = "closed"

BranchReadApis == BranchListApis \cup {"Branches.show", "repos.getBranch"}

\* C21: on every adapter getBranch and listBranches start the branch read and
\* the repository read together: whenever the branch read was issued the
\* repository read was issued too, also when the branch read failed or
\* returned nothing.
C21_ReadsStartedTogether ==
  (Ended /\ op \in {"getBranch", "listBranches"})
    => (callsTo(BranchReadApis) # {} => callsTo(RepositoryApis) # {})

\* the backend holds the pull request as merged, and as closed without merge
nativeMerged(pr) ==
  IF provider = "github" THEN pr.merged_at # Null
  ELSE IF provider = "gitlab" THEN pr.state = "merged"
  ELSE pr.status = 3

nativeAbandoned(pr) ==
  IF provider = "github" THEN pr.state = "closed" /\ pr.merged_at = Null
  ELSE IF provider = "gitlab" THEN pr.state = "closed"
  ELSE pr.status = 2

\* C22: on every adapter listPullRequests with state "closed" covers the
\* abandoned and the merged pull requests: with the default page size, larger
\* than what the backend holds, every pull request the backend holds as closed
\* without merge or as merged is in the result.
C22_ClosedCoversMerged ==
  (/\ Succeeded
   /\ op = "listPullRequests"
   /\ args.state = "closed"
   /\ args.limit = UndefinedNum)
    => \A j \in 1..Len(pulls) :
         (nativeMerged(pulls[j]) \/ nativeAbandoned(pulls[j]))
           => \E i \in 1..Len(result.value) : result.value[i].number = pulls[j].number

\* C23: on every adapter a createBranch that ends with an error has created
\* no branch: the backend holds the same branches after it as before it.
C23_FailedCreateLeavesNoBranch ==
  (Ended /\ op = "createBranch" /\ result.tag # "ok") => refs = refsBefore

\* the branches an operation returned
returnedBranches ==
  IF op = "listBranches" THEN {result.value[i] : i \in 1..Len(result.value)}
  ELSE {result.value}

\* C24: a Branch the Azure DevOps adapter returns from createBranch, getBranch
\* or listBranches has isDefault true only if the repository reports a default
\* branch and that branch, without its refs/heads/ prefix, is the branch's
\* name; when the repository reports none, isDefault is false whatever the
\* name.
C24_AzureDefaultNeedsReport ==
  (/\ Succeeded
   /\ provider = "azure-devops"
   /\ op \in {"createBranch", "getBranch", "listBranches"})
    => \A b \in returnedBranches :
         b.isDefault => (reportedDefault # Undefined /\ reportedDefault = b.name)

\* C25: on the GitLab and the Azure DevOps adapter the sha of the CommitResult
\* of a successful commitFile is the commit the write of that invocation
\* created, also when another client commits to the branch meanwhile.
C25_ShaOfOwnWrite ==
  (Succeeded /\ op = "commitFile" /\ provider \in {"gitlab", "azure-devops"})
    => result.value.sha = WriteSha

\* C26: with the Azure DevOps adapter and one backend response, the listing
\* for state "closed" is the sub-sequence of the listing for state "all"
\* (the whole response, normalized) whose normalized state is closed or
\* merged, whatever the native status of a pull request, an absent one
\* included.
C26_ClosedIsClosedPartOfAll ==
  (Succeeded /\ provider = "azure-devops" /\ op = "listPullRequests"
     /\ args.state = "closed")
    => LET response == calls[2].response.data
           all == [idx \in 1..Len(response) |-> mapPullRequest(response[idx])]
       IN result.value = SelectSeq(all, LAMBDA pr : pr.state \in {"closed", "merged"})

====
